---- MODULE Spec2Model ----
(***************************************************************************)
(* A model of src/src/core/tools/webSearchTool.ts: the webSearchTool       *)
(* handler (one run, every await a step that either resolves or rejects)   *)
(* and its helpers extractKeyPhrases and generateSearchSummary.            *)
(*                                                                         *)
(* Strings are TLA+ strings; a page's body text is held in the token form  *)
(* that content.split(/\s+/) produces (a sequence of whitespace-free       *)
(* words; the empty text "" is the one-token sequence <<"">>).             *)
(***************************************************************************)
EXTENDS Integers, Sequences, FiniteSets, TLC

VARIABLES
    pc,                 \* position of the run inside webSearchTool
    block,              \* block.params: query, max_results, sliding_window_size
    listing,            \* the li.b_algo candidates the results page holds
    query,              \* const query (line 71)
    maxResults,         \* const maxResults (line 73)
    slidingWindowSize,  \* const slidingWindowSize (line 74)
    browser,            \* let browser: "none" (undefined), "open", "closed"
    approval,           \* didApprove: "pending", "approved", "declined"
    dirCreated,         \* fs.mkdir(resultsDir) has been performed
    netUsed,            \* a browser or network call has been performed
    i,                  \* loop index of the listing loop (0-based)
    cur,                \* title, url, snippet of the candidate being visited
    results,            \* const results: WebSearchResult[]
    origin,             \* for each entry of results, the listing position it came from
    openPages,          \* content pages opened by browser.newPage() and not closed
    contentPage,        \* the page handle of the current iteration (0: none)
    processed,          \* processedResults (line 199), <<>> before it is built
    artifact,           \* files written by fs.writeFile: a sequence of [path, data]
    pushed,             \* values passed to pushToolResult
    handleErrorCalls,   \* number of handleError invocations
    raised,             \* the steps that rejected or threw, in order: [step, cand]
    mistakes,           \* cline.consecutiveMistakeCount increments
    kpIn,               \* input of a stand-alone extractKeyPhrases call
    kpOut,              \* its return value
    sumIn,              \* input of a stand-alone generateSearchSummary call
    sumOut              \* its return value

vars == << pc, block, listing, query, maxResults, slidingWindowSize, browser,
           approval, dirCreated, netUsed, i, cur, results, origin, openPages, contentPage,
           processed, artifact, pushed, handleErrorCalls, raised, mistakes,
           kpIn, kpOut, sumIn, sumOut >>

----------------------------------------------------------------------------
(* Bounds of the model *)

MaxListing == 3        \* longest results listing
MaxMaxResults == 2     \* largest max_results parameter supplied

(* Program constants *)

DefaultMaxResults == 5
DefaultWindowSize == 100
MaxKeyPhrases == 5
MinPhraseLen == 30
MaxPhraseLen == 150

Min(a, b) == IF a < b THEN a ELSE b

----------------------------------------------------------------------------
(* Strings *)

RECURSIVE Rep(_, _)
Rep(c, n) ==
    IF n = 0 THEN "" ELSE IF n = 1 THEN c
    ELSE Rep(c, n \div 2) \o Rep(c, n - (n \div 2))

\* Array.prototype.join(sep)
RECURSIVE Join(_, _)
Join(seq, sep) ==
    IF Len(seq) = 0 THEN ""
    ELSE IF Len(seq) = 1 THEN seq[1]
    ELSE seq[1] \o sep \o Join(Tail(seq), sep)

\* Array.prototype.slice(start, end) for start >= 0 (0-based, end exclusive,
\* a negative end counts from the end of the array)
Slice(seq, start, end) ==
    LET n  == Len(seq)
        e0 == IF end < 0 THEN (IF n + end < 0 THEN 0 ELSE n + end) ELSE Min(end, n)
        s0 == Min(start, n)
    IN  IF e0 <= s0 THEN << >> ELSE SubSeq(seq, s0 + 1, e0)

\* parseInt of a decimal numeral given as its characters
DigitVal(ch) ==
    CASE ch = "0" -> 0 [] ch = "1" -> 1 [] ch = "2" -> 2 [] ch = "3" -> 3
      [] ch = "4" -> 4 [] ch = "5" -> 5 [] ch = "6" -> 6 [] ch = "7" -> 7
      [] ch = "8" -> 8 [] ch = "9" -> 9

RECURSIVE ParseDigits(_, _)
ParseDigits(chars, acc) ==
    IF Len(chars) = 0 THEN acc
    ELSE ParseDigits(Tail(chars), acc * 10 + DigitVal(Head(chars)))

parseInt(chars) == ParseDigits(chars, 0)

DigitChar == << "0", "1", "2", "3", "4", "5", "6", "7", "8", "9" >>
Numeral(n) == IF n < 10 THEN << DigitChar[n + 1] >>
              ELSE << DigitChar[(n \div 10) + 1], DigitChar[(n % 10) + 1] >>

----------------------------------------------------------------------------
(* WebSearchResult values.  detail = FALSE is an entry that carries only   *)
(* title, url and snippet (content, codeSnippets and headings absent).     *)

FullResult(c, page) ==
    [title |-> c.title, url |-> c.url, snippet |-> c.snippet, detail |-> TRUE,
     content |-> page.content, codeSnippets |-> page.codeSnippets,
     headings |-> page.headings]

PartialResult(c) ==
    [title |-> c.title, url |-> c.url, snippet |-> c.snippet, detail |-> FALSE,
     content |-> << >>, codeSnippets |-> << >>, headings |-> << >>]

----------------------------------------------------------------------------
(* extractKeyPhrases (lines 225-241) *)

Range(seq) == { seq[k] : k \in 1..Len(seq) }

\* Set.prototype.add on a Set kept in insertion order
SetAdd(phrases, phrase) ==
    IF phrase \in Range(phrases) THEN phrases ELSE Append(phrases, phrase)

\* !result.content: the field is absent or the text is empty
NoContent(r) == ~r.detail \/ r.content = << "" >> \/ r.content = << >>

\* a length test that lets the limits themselves through
PhraseKeptInclusive(phrase) ==
    Len(phrase) >= MinPhraseLen /\ Len(phrase) <= MaxPhraseLen

\* line 234
PhraseKept(phrase) == Len(phrase) > MinPhraseLen /\ Len(phrase) < MaxPhraseLen

\* lines 232-237, from index k on
RECURSIVE WindowLoop(_, _, _, _)
WindowLoop(words, windowSize, k, phrases) ==
    IF k < Len(words) - windowSize
    THEN LET phrase == Join(Slice(words, k, k + windowSize), " ")
         IN  WindowLoop(words, windowSize, k + 1,
                        IF PhraseKept(phrase) THEN SetAdd(phrases, phrase) ELSE phrases)
    ELSE phrases

\* lines 228-238, from result n on
RECURSIVE ResultLoop(_, _, _, _)
ResultLoop(rs, windowSize, n, phrases) ==
    IF n > Len(rs) THEN phrases
    ELSE IF NoContent(rs[n]) THEN ResultLoop(rs, windowSize, n + 1, phrases)
    ELSE ResultLoop(rs, windowSize, n + 1,
                    WindowLoop(rs[n].content, windowSize, 0, phrases))

extractKeyPhrases(rs, windowSize) ==
    Slice(ResultLoop(rs, windowSize, 1, << >>), 0, MaxKeyPhrases)

----------------------------------------------------------------------------
(* generateSearchSummary (lines 243-250) *)

Fallback == "No structured summary available"

\* line 245
HasHeadings(r) == r.detail /\ Len(r.headings) > 0

\* headings joined with a bare space
HeadingLineSpace(r) == Join(r.headings, " ")

\* line 246
HeadingLine(r) == Join(r.headings, " > ")

generateSearchSummary(rs) ==
    LET kept    == SelectSeq(rs, HasHeadings)
        lines   == [k \in 1..Len(kept) |-> HeadingLine(kept[k])]
        summary == Join(lines, "\n")
    IN  IF summary = "" THEN Fallback ELSE summary

----------------------------------------------------------------------------
(* formatSearchResults (lines 252-271) *)

ResultBlock(r) ==
    "- " \o r.title \o "\n  " \o r.url \o "\n  " \o r.snippet \o "\n  "
    \o (IF r.detail /\ Len(r.codeSnippets) > 0
        THEN "\nCode Snippets: " \o ToString(Len(r.codeSnippets)) \o " found" ELSE "")
    \o "\n  "
    \o (IF r.detail /\ Len(r.headings) > 0
        THEN "\nHeadings: " \o Join(r.headings, " > ") ELSE "")

formatSearchResults(p, storagePath) ==
    "Web Search Results for: \"" \o p.query \o "\"\n"
    \o (IF p.domain # "" THEN "Domain: " \o p.domain \o "\n" ELSE "")
    \o "\nResults stored in: " \o storagePath
    \o "\n\nSearch Summary:\n" \o p.searchSummary
    \o "\n\nKey Phrases:\n" \o Join(p.keyPhrases, "\n")
    \o "\n\nResults:\n"
    \o Join([k \in 1..Len(p.results) |-> ResultBlock(p.results[k])], "\n\n")

----------------------------------------------------------------------------
(* The inputs of a run: the tool-use block and what the results page holds. *)
(* domain and chunk_dir only shape the search URL, the directory name and   *)
(* the report header, so one value of each is enough.                       *)

\* body text "install the package then run it", tokenised
DocWords == << Rep("a", 16), Rep("b", 16), Rep("c", 14), Rep("d", 9) >>

DocPage   == [content |-> DocWords, codeSnippets |-> << "x = 1" >>,
              headings |-> << "A", "B" >>]
EmptyPage == [content |-> << "" >>, codeSnippets |-> << >>, headings |-> << >>]

\* A li.b_algo entry: whether "h2 a" and ".b_caption p" exist, their
\* textContent and href, and the page its link leads to.
Candidates ==
    { [titleEl |-> TRUE,  snippetEl |-> TRUE,  text |-> "Docs", href |-> "https://a.example/",
       caption |-> "about docs", page |-> DocPage],
      [titleEl |-> TRUE,  snippetEl |-> TRUE,  text |-> "", href |-> "",
       caption |-> "", page |-> EmptyPage],
      [titleEl |-> FALSE, snippetEl |-> TRUE,  text |-> "", href |-> "",
       caption |-> "ad", page |-> EmptyPage],
      [titleEl |-> TRUE,  snippetEl |-> FALSE, text |-> "Video", href |-> "https://v.example/",
       caption |-> "", page |-> EmptyPage] }

Listings == UNION { [1..n -> Candidates] : n \in 0..MaxListing }

Blocks ==
    [query : {"", "foo"},
     domain : {"dev.to"},
     max_results : {<< >>} \cup { Numeral(n) : n \in 1..MaxMaxResults },
     sliding_window_size : {<< >>, << "2" >>}]

ResultsDir == "/cwd/web-search-results"
Timestamp == "2024-01-01T00:00:00.000Z"
NoCandidate == [title |-> "", url |-> "", snippet |-> ""]

InitRun ==
    /\ pc = "params"
    /\ block \in Blocks
    /\ listing \in Listings
    /\ query = ""
    /\ maxResults = 0
    /\ slidingWindowSize = 0
    /\ browser = "none"
    /\ approval = "pending"
    /\ dirCreated = FALSE
    /\ netUsed = FALSE
    /\ i = 0
    /\ cur = NoCandidate
    /\ results = << >>
    /\ origin = << >>
    /\ openPages = {}
    /\ contentPage = 0
    /\ processed = << >>
    /\ artifact = << >>
    /\ pushed = << >>
    /\ handleErrorCalls = 0
    /\ raised = << >>
    /\ mistakes = 0

IdlePure == kpIn = << >> /\ kpOut = << >> /\ sumIn = << >> /\ sumOut = ""

Init == InitRun /\ IdlePure

----------------------------------------------------------------------------
(* webSearchTool (lines 59-223) *)

pureVars == << kpIn, kpOut, sumIn, sumOut >>
inputVars == << block, listing >>
paramVars == << query, maxResults, slidingWindowSize >>
loopVars == << i, cur, results, origin, openPages, contentPage >>
outVars == << processed, artifact, pushed >>
envVars == << browser, approval, dirCreated, netUsed >>

\* an awaited call rejects (or a call throws) inside the outer try: control
\* moves to the catch block of line 216
Throw(step) ==
    /\ pc' = "catch"
    /\ raised' = Append(raised, [step |-> step, cand |-> 0])

\* lines 71-84
ParseParams ==
    /\ pc = "params"
    /\ query' = block.query
    /\ maxResults' = IF block.max_results # << >>
                     THEN parseInt(block.max_results) ELSE DefaultMaxResults
    /\ slidingWindowSize' = IF block.sliding_window_size # << >>
                            THEN parseInt(block.sliding_window_size)
                            ELSE DefaultWindowSize
    /\ pc' = IF block.query = "" THEN "missing" ELSE "mkdir"
    /\ UNCHANGED << inputVars, loopVars, outVars, envVars, handleErrorCalls, raised,
                    mistakes, pureVars >>

\* lines 81-83
MissingParam ==
    /\ pc = "missing"
    /\ mistakes' = mistakes + 1
    /\ pushed' = Append(pushed, [kind |-> "missingParam", text |-> "query"])
    /\ pc' = "finally"
    /\ UNCHANGED << inputVars, paramVars, loopVars, processed, artifact, envVars,
                    handleErrorCalls, raised, pureVars >>

\* lines 92-93
Mkdir ==
    /\ pc = "mkdir"
    /\ \/ /\ dirCreated' = TRUE
          /\ pc' = "ask"
          /\ UNCHANGED raised
       \/ /\ Throw("mkdir")
          /\ UNCHANGED dirCreated
    /\ UNCHANGED << inputVars, paramVars, loopVars, outVars, browser, approval, netUsed,
                    handleErrorCalls, mistakes, pureVars >>

\* lines 107-110
AskApproval ==
    /\ pc = "ask"
    /\ \/ /\ approval' = "approved"
          /\ pc' = "launch"
          /\ UNCHANGED raised
       \/ /\ approval' = "declined"
          /\ pc' = "finally"
          /\ UNCHANGED raised
       \/ /\ Throw("askApproval")
          /\ UNCHANGED approval
    /\ UNCHANGED << inputVars, paramVars, loopVars, outVars, browser, dirCreated, netUsed,
                    handleErrorCalls, mistakes, pureVars >>

\* lines 113-118: PCR({}) resolves the browser binary, then puppeteer.launch
Launch ==
    /\ pc = "launch"
    /\ netUsed' = TRUE
    /\ \/ /\ browser' = "open"
          /\ pc' = "searchPage"
          /\ UNCHANGED raised
       \/ /\ Throw("launch")
          /\ UNCHANGED browser
    /\ UNCHANGED << inputVars, paramVars, loopVars, outVars, approval, dirCreated,
                    handleErrorCalls, mistakes, pureVars >>

\* lines 120-138: newPage, setRequestInterception, goto(searchUrl)
SearchPage ==
    /\ pc = "searchPage"
    /\ \/ /\ pc' = "list"
          /\ UNCHANGED raised
       \/ \E step \in {"newPage", "setRequestInterception", "goto"} : Throw(step)
    /\ UNCHANGED << inputVars, paramVars, loopVars, outVars, envVars,
                    handleErrorCalls, mistakes, pureVars >>

\* lines 141-142
ListResults ==
    /\ pc = "list"
    /\ \/ /\ pc' = "loop"
          /\ UNCHANGED raised
       \/ Throw("$$")
    /\ i' = 0
    /\ results' = << >>
    /\ UNCHANGED << inputVars, paramVars, cur, origin, openPages, contentPage, outVars, envVars,
                    handleErrorCalls, mistakes, pureVars >>

\* a loop that runs until maxResults entries have been collected
LoopTestCountsResults ==
    /\ pc = "loop"
    /\ pc' = IF i < Len(listing) /\ Len(results) < maxResults
             THEN "candidate" ELSE "process"
    /\ UNCHANGED << inputVars, paramVars, loopVars, outVars, envVars,
                    handleErrorCalls, raised, mistakes, pureVars >>

\* line 144: the loop condition
LoopTest ==
    /\ pc = "loop"
    /\ pc' = IF i < Min(Len(listing), maxResults) THEN "candidate" ELSE "process"
    /\ UNCHANGED << inputVars, paramVars, loopVars, outVars, envVars,
                    handleErrorCalls, raised, mistakes, pureVars >>

\* a candidate accepted when either element exists
CandidateEitherElement ==
    /\ pc = "candidate"
    /\ LET result == listing[i + 1] IN
       \/ /\ result.titleEl \/ result.snippetEl
          /\ cur' = [title |-> result.text, url |-> result.href,
                     snippet |-> result.caption]
          /\ pc' = "detailOpen"
          /\ UNCHANGED << i, raised >>
       \/ /\ ~(result.titleEl \/ result.snippetEl)
          /\ i' = i + 1
          /\ pc' = "loop"
          /\ UNCHANGED << cur, raised >>
    /\ UNCHANGED << inputVars, paramVars, results, origin, openPages, contentPage,
                    outVars, envVars, handleErrorCalls, mistakes, pureVars >>

\* lines 145-153: the candidate's elements and their texts
Candidate ==
    /\ pc = "candidate"
    /\ LET result == listing[i + 1] IN
       \/ /\ result.titleEl /\ result.snippetEl
          /\ cur' = [title |-> result.text, url |-> result.href,
                     snippet |-> result.caption]
          /\ pc' = "detailOpen"
          /\ UNCHANGED << i, raised >>
       \/ /\ ~(result.titleEl /\ result.snippetEl)
          /\ i' = i + 1
          /\ pc' = "loop"
          /\ UNCHANGED << cur, raised >>
       \/ /\ Throw("candidate")
          /\ UNCHANGED << i, cur >>
    /\ UNCHANGED << inputVars, paramVars, results, origin, openPages, contentPage,
                    outVars, envVars, handleErrorCalls, mistakes, pureVars >>

\* a detail failure that escapes to the outer catch instead
SoftCatchEscapes(step) ==
    /\ pc' = "catch"
    /\ raised' = Append(raised, [step |-> step, cand |-> i + 1])
    /\ UNCHANGED << results, origin, i >>

\* lines 190-193: the inner catch block, then i++
SoftCatch(step) ==
    /\ results' = Append(results, PartialResult(cur))
    /\ origin' = Append(origin, i + 1)
    /\ raised' = Append(raised, [step |-> step, cand |-> i + 1])
    /\ i' = i + 1
    /\ pc' = "loop"

\* line 156
DetailOpen ==
    /\ pc = "detailOpen"
    /\ \/ /\ contentPage' = i + 1
          /\ openPages' = openPages \cup {i + 1}
          /\ pc' = "detailGoto"
          /\ UNCHANGED << i, results, origin, raised >>
       \/ /\ SoftCatch("detail.newPage")
          /\ UNCHANGED << contentPage, openPages >>
    /\ UNCHANGED << inputVars, paramVars, cur, outVars, envVars,
                    handleErrorCalls, mistakes, pureVars >>

\* line 157
DetailGoto ==
    /\ pc = "detailGoto"
    /\ \/ /\ pc' = "detailExtract"
          /\ UNCHANGED << i, results, origin, raised >>
       \/ SoftCatch("detail.goto")
    /\ UNCHANGED << inputVars, paramVars, cur, openPages, contentPage, outVars, envVars,
                    handleErrorCalls, mistakes, pureVars >>

\* lines 160-186: the three evaluate calls, then results.push
DetailExtract ==
    /\ pc = "detailExtract"
    /\ \/ /\ results' = Append(results, FullResult(cur, listing[i + 1].page))
          /\ origin' = Append(origin, i + 1)
          /\ pc' = "detailClose"
          /\ UNCHANGED << i, raised >>
       \/ SoftCatch("detail.evaluate")
    /\ UNCHANGED << inputVars, paramVars, cur, openPages, contentPage, outVars, envVars,
                    handleErrorCalls, mistakes, pureVars >>

\* line 188; a close() that rejects may or may not have closed the page
DetailClose ==
    /\ pc = "detailClose"
    /\ \/ /\ openPages' = openPages \ {contentPage}
          /\ i' = i + 1
          /\ pc' = "loop"
          /\ UNCHANGED << results, origin, raised >>
       \/ /\ SoftCatch("detail.close")
          /\ \E closed \in BOOLEAN :
                openPages' = IF closed THEN openPages \ {contentPage} ELSE openPages
    /\ UNCHANGED << inputVars, paramVars, cur, contentPage, outVars, envVars,
                    handleErrorCalls, mistakes, pureVars >>

\* lines 198-206
Process ==
    /\ pc = "process"
    /\ processed' = [query |-> query, domain |-> block.domain, results |-> results,
                     keyPhrases |-> extractKeyPhrases(results, slidingWindowSize),
                     searchSummary |-> generateSearchSummary(results),
                     timestamp |-> Timestamp]
    /\ pc' = "write"
    /\ UNCHANGED << inputVars, paramVars, loopVars, artifact, pushed, envVars,
                    handleErrorCalls, raised, mistakes, pureVars >>

resultsPath == ResultsDir \o "/search-" \o Timestamp \o ".json"

\* lines 209-210
WriteFile ==
    /\ pc = "write"
    /\ \/ /\ artifact' = Append(artifact, [path |-> resultsPath, data |-> processed])
          /\ pc' = "push"
          /\ UNCHANGED raised
       \/ /\ Throw("writeFile")
          /\ UNCHANGED artifact
    /\ UNCHANGED << inputVars, paramVars, loopVars, processed, pushed, envVars,
                    handleErrorCalls, mistakes, pureVars >>

\* lines 213-214
PushResult ==
    /\ pc = "push"
    /\ \/ /\ pushed' = Append(pushed, [kind |-> "report",
                                       text |-> formatSearchResults(processed, resultsPath)])
          /\ pc' = "finally"
          /\ UNCHANGED raised
       \/ /\ Throw("pushToolResult")
          /\ UNCHANGED pushed
    /\ UNCHANGED << inputVars, paramVars, loopVars, processed, artifact, envVars,
                    handleErrorCalls, mistakes, pureVars >>

\* lines 216-217
Catch ==
    /\ pc = "catch"
    /\ handleErrorCalls' = handleErrorCalls + 1
    /\ pc' = "finally"
    /\ UNCHANGED << inputVars, paramVars, loopVars, outVars, envVars, raised,
                    mistakes, pureVars >>

\* a teardown placed at the end of the try block: skipped after an error
FinallyOnSuccessOnly ==
    /\ pc = "finally"
    /\ IF browser = "open" /\ handleErrorCalls = 0
       THEN browser' = "closed" /\ openPages' = {}
       ELSE UNCHANGED << browser, openPages >>
    /\ pc' = "done"
    /\ UNCHANGED << inputVars, paramVars, i, cur, results, origin, contentPage, outVars,
                    approval, dirCreated, netUsed, handleErrorCalls, raised,
                    mistakes, pureVars >>

\* lines 218-222; browser.close() also closes every page of the browser
Finally ==
    /\ pc = "finally"
    /\ IF browser = "open"
       THEN browser' = "closed" /\ openPages' = {}
       ELSE UNCHANGED << browser, openPages >>
    /\ pc' = "done"
    /\ UNCHANGED << inputVars, paramVars, i, cur, results, origin, contentPage, outVars,
                    approval, dirCreated, netUsed, handleErrorCalls, raised,
                    mistakes, pureVars >>

Next ==
    \/ ParseParams
    \/ MissingParam
    \/ Mkdir
    \/ AskApproval
    \/ Launch
    \/ SearchPage
    \/ ListResults
    \/ LoopTest
    \/ Candidate
    \/ DetailOpen
    \/ DetailGoto
    \/ DetailExtract
    \/ DetailClose
    \/ Process
    \/ WriteFile
    \/ PushResult
    \/ Catch
    \/ Finally

Spec == Init /\ [][Next]_vars

----------------------------------------------------------------------------
(* Properties of a run of webSearchTool *)

HasBoth(c) == c.titleEl /\ c.snippetEl
Examined == 1..Min(Len(listing), maxResults)
LoopDone == pc = "process" \/ processed # << >>
DetailSteps == {"detail.newPage", "detail.goto", "detail.evaluate"}
Reports == { k \in 1..Len(pushed) : pushed[k].kind = "report" }

\* C1: when the approval gate declines, no directory has been created, no
\* file written, no browser or network call made and no result pushed.
C1_DeclineNoSideEffects ==
    approval = "declined" =>
        ~dirCreated /\ artifact = << >> /\ ~netUsed /\ browser = "none"
        /\ pushed = << >>

\* C2: a browser that was launched is closed when the run ends, on the
\* success path and on every failure path.
C2_BrowserClosedAtExit ==
    (pc = "done" /\ browser # "none") => browser = "closed"

C2_Witness ==
    pc = "done" /\ browser = "closed" /\ handleErrorCalls = 1 /\ Len(results) > 0

\* C3: every content page is closed before the loop moves on to the next
\* candidate, so at most one content page is open at any time.
C3_AtMostOneContentPage ==
    /\ Cardinality(openPages) <= 1
    /\ pc \in {"loop", "candidate", "detailOpen", "process"} => openPages = {}

\* C4 (as stated): the number of results equals min(maxResults, number of
\* listing candidates that have both a title and a snippet).
C4_SkippedNotCounted ==
    LoopDone =>
        Len(results) = Min(maxResults,
                           Cardinality({ k \in 1..Len(listing) : HasBoth(listing[k]) }))

\* C4 (amended): a candidate lacking a title or a snippet is skipped without
\* aborting the run but does use up one of the maxResults slots: the candidates
\* that produce an entry are exactly those among the first
\* min(maxResults, listing length) that have both elements.
C4_SkippedCounted ==
    LoopDone => Range(origin) = { k \in Examined : HasBoth(listing[k]) }

C4_Witness ==
    /\ pc = "done" /\ Len(artifact) = 1
    /\ \E k \in Examined : ~HasBoth(listing[k])
    /\ \E k \in 1..Len(listing) : k \notin Examined /\ HasBoth(listing[k])
    /\ Len(results) = 1

\* C5: a failure of detail-page navigation or extraction leaves an entry with
\* only title, url and snippet for that candidate, the later candidates are
\* still processed, handleError is not invoked for it, and a run in which
\* nothing else fails ends with the artifact written and the report pushed.
C5_SoftFailure ==
    /\ \A n \in 1..Len(raised) :
          raised[n].step \in DetailSteps =>
             /\ \E k \in 1..Len(results) :
                   /\ origin[k] = raised[n].cand
                   /\ results[k] = [title |-> listing[origin[k]].text,
                                    url |-> listing[origin[k]].href,
                                    snippet |-> listing[origin[k]].caption,
                                    detail |-> FALSE, content |-> << >>,
                                    codeSnippets |-> << >>, headings |-> << >>]
             /\ \A k \in 1..Len(results) :
                   origin[k] = raised[n].cand => ~results[k].detail
             /\ pc # "catch" \/ n < Len(raised)
             /\ LoopDone =>
                   \A k \in Examined :
                      k > raised[n].cand /\ HasBoth(listing[k]) => k \in Range(origin)
    /\ handleErrorCalls <= Cardinality({ n \in 1..Len(raised) :
                                          raised[n].step \notin DetailSteps })
    /\ ( /\ pc = "done"
         /\ approval = "approved"
         /\ \A n \in 1..Len(raised) : raised[n].cand # 0 )
       => /\ handleErrorCalls = 0
          /\ Len(artifact) = 1
          /\ artifact[1].data.results = results
          /\ Cardinality(Reports) = 1

C5_Witness ==
    /\ pc = "done"
    /\ Len(raised) = 1 /\ raised[1].step = "detail.goto" /\ raised[1].cand = 1
    /\ Len(results) = 2 /\ ~results[1].detail /\ results[2].detail
    /\ Len(artifact) = 1 /\ Cardinality(Reports) = 1

\* C6: whenever handleError has been invoked, no artifact file has been
\* written and no report has been pushed.
C6_FailedSearchNoArtifact ==
    handleErrorCalls > 0 => artifact = << >> /\ Reports = {}

\* C7: results never holds more than maxResults entries, during the run and
\* in the persisted ProcessedResults.
C7_ResultsBounded ==
    /\ pc \notin {"params", "missing"} => Len(results) <= maxResults
    /\ \A k \in 1..Len(artifact) : Len(artifact[k].data.results) <= maxResults

\* C8 (as stated): every entry of results has a non-empty title, url and
\* snippet.
C8_FieldsNonEmpty ==
    \A k \in 1..Len(results) :
        results[k].title # "" /\ results[k].url # "" /\ results[k].snippet # ""

\* C8 (amended): every entry of results comes from a candidate whose title
\* and snippet elements both exist and carries that candidate's title text,
\* href and snippet text; a field is non-empty when the element's text (or
\* href) is non-empty, and is the empty string when that text is empty.
C8_FieldsFromListing ==
    \A k \in 1..Len(results) :
        LET c == listing[origin[k]] IN
        /\ HasBoth(c)
        /\ results[k].title = c.text
        /\ results[k].url = c.href
        /\ results[k].snippet = c.caption
        /\ c.text # "" => results[k].title # ""
        /\ c.text = "" => results[k].title = ""

C8_Witness ==
    /\ Len(results) = 2
    /\ results[1].title = "" /\ results[1].snippet = ""
    /\ results[2].title = "Docs" /\ results[2].snippet = "about docs"

----------------------------------------------------------------------------
(* Stand-alone calls of extractKeyPhrases *)

KPCorpusLen == 9       \* words in the text the result bodies are cut from
KPMaxResults == 2      \* results passed to one call

KPWordLens == << 31, 30, 40, 150, 50, 60, 149, 70 >>
KPLetters == << "p", "q", "r", "s", "t", "u", "v", "w" >>
KPWord(k) == Rep(KPLetters[((k - 1) % 8) + 1], KPWordLens[((k - 1) % 8) + 1])
KPCorpus == [k \in 1..KPCorpusLen |-> KPWord(k)]

\* bodies: every run of consecutive words of the corpus, and the empty text
KPContents ==
    { SubSeq(KPCorpus, a, b) : a \in 1..KPCorpusLen, b \in 1..KPCorpusLen } \cup {<< "" >>}

KPResult(content) ==
    FullResult(NoCandidate, [content |-> content, codeSnippets |-> << >>,
                             headings |-> << >>])

\* a result with a body, or one that failed detail extraction
KPResults == { KPResult(c) : c \in KPContents \ {<< >>} } \cup {PartialResult(NoCandidate)}

KPWindowSizes == {0, 1, 2}

KPInputs ==
    [results : UNION { [1..n -> KPResults] : n \in 0..KPMaxResults },
     windowSize : KPWindowSizes]

IdleRun ==
    /\ block = [query |-> "", domain |-> "", max_results |-> << >>,
                sliding_window_size |-> << >>]
    /\ listing = << >>
    /\ query = ""
    /\ maxResults = 0
    /\ slidingWindowSize = 0
    /\ browser = "none"
    /\ approval = "pending"
    /\ dirCreated = FALSE
    /\ netUsed = FALSE
    /\ i = 0
    /\ cur = NoCandidate
    /\ results = << >>
    /\ origin = << >>
    /\ openPages = {}
    /\ contentPage = 0
    /\ processed = << >>
    /\ artifact = << >>
    /\ pushed = << >>
    /\ handleErrorCalls = 0
    /\ raised = << >>
    /\ mistakes = 0

frameVars == << block, listing, query, maxResults, slidingWindowSize, browser,
                approval, dirCreated, netUsed, i, cur, results, origin, openPages,
                contentPage, processed, artifact, pushed, handleErrorCalls, raised,
                mistakes >>

InitKP ==
    /\ IdleRun
    /\ pc = "kp.call"
    /\ kpIn \in KPInputs
    /\ kpOut = << >>
    /\ sumIn = << >> /\ sumOut = ""

CallExtractKeyPhrases ==
    /\ pc = "kp.call"
    /\ kpOut' = extractKeyPhrases(kpIn.results, kpIn.windowSize)
    /\ pc' = "kp.done"
    /\ UNCHANGED << frameVars, kpIn, sumIn, sumOut >>

NextKP == CallExtractKeyPhrases

SpecKP == InitKP /\ [][NextKP]_vars

\* the windows of one body, in the order the loop of lines 232-233 takes them
KPWindows(words, windowSize) ==
    LET n == IF Len(words) - windowSize > 0 THEN Len(words) - windowSize ELSE 0
    IN  [k \in 1..n |-> Join(Slice(words, k - 1, k - 1 + windowSize), " ")]

RECURSIVE KPDiscovery(_, _)
KPDiscovery(rs, windowSize) ==
    IF rs = << >> THEN << >>
    ELSE (IF Head(rs).detail /\ Head(rs).content # << "" >>
          THEN KPWindows(Head(rs).content, windowSize) ELSE << >>)
         \o KPDiscovery(Tail(rs), windowSize)

KPQualifies(phrase) == Len(phrase) > 30 /\ Len(phrase) < 150

\* C10: extractKeyPhrases returns at most 5 phrases, all distinct, each longer
\* than 30 and shorter than 150 characters, and they are the first 5 distinct
\* qualifying windows in discovery order across the results.
C10_KeyPhrases ==
    pc = "kp.done" =>
        LET Q     == KPDiscovery(kpIn.results, kpIn.windowSize)
            First == { m \in 1..Len(Q) :
                         KPQualifies(Q[m]) /\ \A m2 \in 1..(m - 1) : Q[m2] # Q[m] }
            Rank(m) == Cardinality({ m2 \in First : m2 < m }) + 1
        IN  /\ Len(kpOut) <= 5
            /\ \A a, b \in 1..Len(kpOut) : a # b => kpOut[a] # kpOut[b]
            /\ \A a \in 1..Len(kpOut) : Len(kpOut[a]) > 30 /\ Len(kpOut[a]) < 150
            /\ Len(kpOut) = Min(5, Cardinality(First))
            /\ \A m \in First : Rank(m) <= 5 => kpOut[Rank(m)] = Q[m]

C10_Witness ==
    /\ pc = "kp.done"
    /\ Len(kpOut) = 5
    /\ Len(kpIn.results) = 2
    /\ kpIn.windowSize = 1
    /\ Cardinality({ w \in Range(KPDiscovery(kpIn.results, 1)) : KPQualifies(w) }) > 5
    /\ \E w \in Range(KPDiscovery(kpIn.results, 1)) : Len(w) = 30
    /\ \E w \in Range(KPDiscovery(kpIn.results, 1)) : Len(w) = 150
    /\ \E a, b \in 1..Len(KPDiscovery(kpIn.results, 1)) :
          a # b /\ KPDiscovery(kpIn.results, 1)[a] = KPDiscovery(kpIn.results, 1)[b]
             /\ KPQualifies(KPDiscovery(kpIn.results, 1)[a])

----------------------------------------------------------------------------
(* Stand-alone calls of generateSearchSummary *)

SumMaxResults == 3     \* results passed to one call

\* the headings detail extraction can return: non-empty strings (line 176)
SumHeadings == { << >>, << "A", "B" >>, << "C" >>, << Fallback >> }

SumResult(headings) ==
    FullResult(NoCandidate, [content |-> << "" >>, codeSnippets |-> << >>,
                             headings |-> headings])

SumResults == { SumResult(h) : h \in SumHeadings } \cup {PartialResult(NoCandidate)}

SumInputs == UNION { [1..n -> SumResults] : n \in 0..SumMaxResults }

InitSum ==
    /\ IdleRun
    /\ pc = "sum.call"
    /\ sumIn \in SumInputs
    /\ sumOut = ""
    /\ kpIn = << >> /\ kpOut = << >>

CallGenerateSearchSummary ==
    /\ pc = "sum.call"
    /\ sumOut' = generateSearchSummary(sumIn)
    /\ pc' = "sum.done"
    /\ UNCHANGED << frameVars, kpIn, kpOut, sumIn >>

NextSum == CallGenerateSearchSummary

SpecSum == InitSum /\ [][NextSum]_vars

SumNoHeadings(rs) == \A k \in 1..Len(rs) : ~rs[k].detail \/ rs[k].headings = << >>

\* the expected text, built line by line from the front
RECURSIVE SumLines(_, _)
SumLines(rs, acc) ==
    IF rs = << >> THEN acc
    ELSE IF ~Head(rs).detail \/ Head(rs).headings = << >> THEN SumLines(Tail(rs), acc)
    ELSE SumLines(Tail(rs),
                  (IF acc = "" THEN "" ELSE acc \o "\n") \o Join(Head(rs).headings, " > "))

\* C9 (as stated): generateSearchSummary returns the fallback text if and
\* only if no result has a non-empty headings sequence; otherwise it returns
\* the per-result headings joined with " > ", one result per line.
C9_FallbackIff ==
    pc = "sum.done" =>
        /\ (sumOut = Fallback) <=> SumNoHeadings(sumIn)
        /\ ~SumNoHeadings(sumIn) => sumOut = SumLines(sumIn, "")

\* C9 (amended): generateSearchSummary returns the fallback text if no result
\* has a non-empty headings sequence; otherwise it returns the per-result
\* headings joined with " > ", one result per line, in result order (a text
\* that equals the fallback only when the headings themselves spell it).
C9_FallbackIf ==
    pc = "sum.done" =>
        /\ SumNoHeadings(sumIn) => sumOut = Fallback
        /\ ~SumNoHeadings(sumIn) => sumOut = SumLines(sumIn, "")
        /\ (sumOut = Fallback /\ ~SumNoHeadings(sumIn)) =>
              \E k \in 1..Len(sumIn) : sumIn[k].headings = << Fallback >>

C9_Witness ==
    /\ pc = "sum.done"
    /\ Len(sumIn) = 3
    /\ sumIn[1].headings = << "A", "B" >> /\ ~sumIn[2].detail
    /\ sumIn[3].headings = << "C" >>
    /\ sumOut = "A > B\nC"

====
